---- MODULE Spec2Model ----
(***************************************************************************)
(* Model of the amino-acid k-mer layer of kmerutils                        *)
(* (src/src/rnautils/kmeraa.rs): the 5-bit alphabet, the packed KmerAA,    *)
(* SequenceAA and KmerSeqIterator / KmerGenerator; of the batch sketch     *)
(* drivers and the parameter persistence (seqsketchjaccard.rs); and of     *)
(* MinHashCount and minhash_distance (minhash.rs).                         *)
(*                                                                         *)
(* A u128 is modelled as the set of its set bit positions (a subset of     *)
(* 0..127), so that shifts drop the bits that leave the word and masks are *)
(* intersections.  A fatal failure (panic!) of an operation is an          *)
(* absorbing state pc = "panicked".  Arithmetic overflow on usize/u8       *)
(* panics in a build with overflow checks ("debug") and wraps otherwise    *)
(* ("release"); the build is chosen in Init.                               *)
(***************************************************************************)
EXTENDS Integers, Naturals, Sequences, FiniteSets, TLC

VARIABLES
    seq,        \* SequenceAA.seq : the bytes of the sequence
    build,      \* "debug" (overflow checks) or "release" (wrapping)
    pc,         \* "init" | "iter" | "kmer" | "done" | "panicked"
    it,         \* the KmerSeqIterator's fields
    emitted,    \* history: the k-mers next() returned as Some, in order
    nnext,      \* history: number of next() calls on the iterator
    nset,       \* history: number of successful set_range calls
    setAt,      \* history: value of nnext at the last successful set_range
    kmer,       \* a KmerAA object (for the KmerAA operations)
    pushed,     \* history: the bytes pushed into kmer since KmerAA::new
    last,       \* the last call: [op, a, b, recv, ret]
    sk,         \* a batch sketching call: its arguments, sig_with_rank, jaccard_vec
    fs,         \* the files holding dumped sketching parameters
    mh          \* a MinHashCount object (minhash.rs)

vars == <<seq, build, pc, it, emitted, nnext, nset, setAt, kmer, pushed, last, sk, fs, mh>>
itvars == <<seq, build, it, emitted, nnext, nset, setAt>>
kmvars == <<kmer, pushed>>

----------------------------------------------------------------------------
(* Bounds of the model *)

MaxLen == 2         \* longest enumerated sequence
MaxK == 2           \* largest k-mer size tried besides the test's k = 4
MaxNext == 2        \* max number of next() calls on one iterator
MaxSetRange == 1    \* max number of successful set_range calls
MaxPush == 3        \* max number of push calls on one KmerAA
MaxSmallK == 3      \* KmerAA::new is tried for 0..MaxSmallK and around 25

(* stand-in for usize::MAX (2^64 - 1): only used as "larger than any length" *)
UsizeMax == 2147483647

Panic == -1         \* result of an operation that panicked (never a byte)
PanicSeq == <<Panic>>

None == <<>>
Some(x) == <<x>>

----------------------------------------------------------------------------
(* u128 as a set of bit positions *)

U128Bits == 128

Pow2(n) == 2 ^ n

\* the low n bits of the small integer c, as bit positions
BitsOf(c, n) == {b \in 0..(n - 1) : (c \div Pow2(b)) % 2 = 1}

\* value of a set of bit positions all below 5
RECURSIVE ValOf(_)
ValOf(S) == IF S = {} THEN 0
            ELSE LET b == CHOOSE x \in S : TRUE IN Pow2(b) + ValOf(S \ {b})

\* x << n on u128 : bits shifted out of the word are lost
Shl(S, n) == {b + n : b \in {x \in S : x + n < U128Bits}}

\* (1 << n) - 1
LowMask(n) == 0..(n - 1)

\* x.rotate_left(r) on u128
RotL(S, r) == {(b + r) % U128Bits : b \in S}

----------------------------------------------------------------------------
(* Alphabet *)

\* the bytes of "ACDEFGHIKLMNPQRSTVWY"
AlphabetBases == {65, 67, 68, 69, 70, 71, 72, 73, 75, 76,
                  77, 78, 80, 81, 82, 83, 84, 86, 87, 89}

is_valid_base(c) == c \in AlphabetBases

\* mutant: a byte outside the alphabet gets the reserved code 0
encode_lenient(c) ==
    CASE c = 65 -> 1   [] c = 67 -> 2   [] c = 68 -> 3   [] c = 69 -> 4
      [] c = 70 -> 5   [] c = 71 -> 6   [] c = 72 -> 7   [] c = 73 -> 8
      [] c = 75 -> 9   [] c = 76 -> 10  [] c = 77 -> 11  [] c = 78 -> 12
      [] c = 80 -> 13  [] c = 81 -> 15  [] c = 82 -> 16  [] c = 83 -> 17
      [] c = 84 -> 18  [] c = 86 -> 19  [] c = 87 -> 20  [] c = 89 -> 21
      [] OTHER -> 0

\* Alphabet::encode
encode(c) ==
    CASE c = 65 -> 1   [] c = 67 -> 2   [] c = 68 -> 3   [] c = 69 -> 4
      [] c = 70 -> 5   [] c = 71 -> 6   [] c = 72 -> 7   [] c = 73 -> 8
      [] c = 75 -> 9   [] c = 76 -> 10  [] c = 77 -> 11  [] c = 78 -> 12
      [] c = 80 -> 13  [] c = 81 -> 15  [] c = 82 -> 16  [] c = 83 -> 17
      [] c = 84 -> 18  [] c = 86 -> 19  [] c = 87 -> 20  [] c = 89 -> 21
      [] OTHER -> Panic

\* mutant: Q is decoded from the skipped pattern 0b01110
decode_q14(c) ==
    CASE c = 1 -> 65   [] c = 2 -> 67   [] c = 3 -> 68   [] c = 4 -> 69
      [] c = 5 -> 70   [] c = 6 -> 71   [] c = 7 -> 72   [] c = 8 -> 73
      [] c = 9 -> 75   [] c = 10 -> 76  [] c = 11 -> 77  [] c = 12 -> 78
      [] c = 13 -> 80  [] c = 14 -> 81  [] c = 16 -> 82  [] c = 17 -> 83
      [] c = 18 -> 84  [] c = 19 -> 86  [] c = 20 -> 87  [] c = 21 -> 89
      [] OTHER -> Panic

\* Alphabet::decode
decode(c) ==
    CASE c = 1 -> 65   [] c = 2 -> 67   [] c = 3 -> 68   [] c = 4 -> 69
      [] c = 5 -> 70   [] c = 6 -> 71   [] c = 7 -> 72   [] c = 8 -> 73
      [] c = 9 -> 75   [] c = 10 -> 76  [] c = 11 -> 77  [] c = 12 -> 78
      [] c = 13 -> 80  [] c = 15 -> 81  [] c = 16 -> 82  [] c = 17 -> 83
      [] c = 18 -> 84  [] c = 19 -> 86  [] c = 20 -> 87  [] c = 21 -> 89
      [] OTHER -> Panic

AlphabetCodes == {encode(c) : c \in AlphabetBases}

----------------------------------------------------------------------------
(* KmerAA *)

NoKmer == [aa |-> {}, nb_base |-> 0]

\* KmerAA::new panics when nb_base >= 25
KmerAA_new_panics(nb_base) == nb_base >= 25

KmerAA_new_value(nb_base) == [aa |-> {}, nb_base |-> nb_base]

\* mutant: the new base is OR-ed in without the 5-bit mask
push_nomask(k, c) ==
    LET value_mask == LowMask(2 * k.nb_base)
    IN  [aa |-> (Shl(k.aa, 5) \cap value_mask) \cup BitsOf(c, 8),
         nb_base |-> k.nb_base]

\* KmerAA::push : ((aa << 5) & ((1 << (2*nb_base)) - 1)) | (c & 0b11111)
push(k, c) ==
    LET value_mask == LowMask(2 * k.nb_base)
    IN  [aa |-> (Shl(k.aa, 5) \cap value_mask) \cup BitsOf(c, 5),
         nb_base |-> k.nb_base]

\* the loop of get_uncompressed_kmer: rotate by 5, take the low 5 bits, decode
RECURSIVE decompress(_, _, _)
decompress(buf, n, acc) ==
    IF n = 0 THEN acc
    ELSE LET b2 == RotL(buf, 5)
             base == ValOf(b2 \cap LowMask(5))
         IN  IF decode(base) = Panic THEN PanicSeq
             ELSE decompress(b2, n - 1, Append(acc, decode(base)))

\* KmerAA::get_uncompressed_kmer (nb_base <= 24 for every constructed KmerAA,
\* so 128 - 5 * nb_bases does not overflow its u8)
get_uncompressed_kmer(k) ==
    decompress(RotL(k.aa, U128Bits - 5 * k.nb_base), k.nb_base, <<>>)

get_compressed_value(k) == k.aa

get_nb_base_max == 25

----------------------------------------------------------------------------
(* Operations on one KmerAA *)

KmerSizes == (0..MaxSmallK) \cup {24, 25, 26}
PushBytes == {0, 1, 2, 10, 21, 31, 67, 255}

NoCall == [op |-> "none", a |-> 0, b |-> 0, recv |-> NoKmer, ret |-> <<>>]
Call(op, a, b, recv, ret) == [op |-> op, a |-> a, b |-> b, recv |-> recv, ret |-> ret]

NoSketch == [driver |-> "none", vseq |-> <<>>, kmer_size |-> 0, fhash |-> "id",
             sig_with_rank |-> <<>>, jaccard_vec |-> <<>>, sketch_err |-> FALSE]

\* no file is modelled / no MinHashCount is modelled
NoFiles == [files |-> <<>>, clean |-> <<>>, nops |-> 0]
NoMinHash == [obj |-> [size |-> 0, keep_item |-> FALSE, hashes |-> <<>>,
                      counts |-> <<>>, total_count |-> 0],
              npush |-> 0, seen |-> {}]

NoIter == [nb_base |-> 0, previous |-> None, range_start |-> 0,
           range_end |-> 0, base_position |-> 0]

KmerAA_new ==
    /\ UNCHANGED <<sk, fs, mh>>
    /\ pc = "init"
    /\ \E nb_base \in KmerSizes :
         IF KmerAA_new_panics(nb_base)
         THEN /\ pc' = "panicked"
              /\ kmer' = kmer
              /\ last' = Call("KmerAA_new", nb_base, 0, NoKmer, <<"Panic">>)
         ELSE /\ pc' = "kmer"
              /\ kmer' = KmerAA_new_value(nb_base)
              /\ last' = Call("KmerAA_new", nb_base, 0, NoKmer, <<"Ok">>)
    /\ pushed' = <<>>
    /\ UNCHANGED itvars

KmerAA_push ==
    /\ UNCHANGED <<sk, fs, mh>>
    /\ pc = "kmer"
    /\ Len(pushed) < MaxPush
    /\ \E c \in PushBytes :
         /\ kmer' = push(kmer, c)
         /\ pushed' = Append(pushed, c)
         /\ last' = Call("push", c, 0, kmer, <<"Ok">>)
    /\ pc' = pc
    /\ UNCHANGED itvars

KmerAA_get_uncompressed_kmer ==
    /\ UNCHANGED <<sk, fs, mh>>
    /\ pc = "kmer"
    /\ LET r == get_uncompressed_kmer(kmer)
       IN  /\ last' = Call("get_uncompressed_kmer", 0, 0, kmer,
                           IF r = PanicSeq THEN <<"Panic">> ELSE <<"Ok", r>>)
           /\ pc' = IF r = PanicSeq THEN "panicked" ELSE pc
    /\ UNCHANGED <<kmer, pushed>>
    /\ UNCHANGED itvars

InitKmer ==
    /\ sk = NoSketch
    /\ fs = NoFiles
    /\ mh = NoMinHash
    /\ seq = <<>>
    /\ build = "debug"
    /\ pc = "init"
    /\ it = NoIter
    /\ emitted = <<>>
    /\ nnext = 0
    /\ nset = 0
    /\ setAt = 0
    /\ kmer = NoKmer
    /\ pushed = <<>>
    /\ last = NoCall

NextKmer ==
    \/ KmerAA_new
    \/ KmerAA_push
    \/ KmerAA_get_uncompressed_kmer

SpecKmer == InitKmer /\ [][NextKmer]_vars

----------------------------------------------------------------------------
(* SequenceAA *)

SeqBytes == {65, 67}                                  \* 'A', 'C'
T4Seq == <<77, 84, 69, 81, 73, 69, 76, 73, 75, 76>>   \* "MTEQIELIKL"
T4Expected == << <<81, 73, 69, 76>>, <<73, 69, 76, 73>>,
                 <<69, 76, 73, 75>>, <<76, 73, 75, 76>> >>

RECURSIVE SeqsUpTo(_)
SeqsUpTo(n) ==
    IF n = 0 THEN {<<>>}
    ELSE LET S == SeqsUpTo(n - 1)
         IN  S \cup {Append(x, c) : x \in {y \in S : Len(y) = n - 1}, c \in SeqBytes}

\* the byte buffers a SequenceAA is built from
Seqs == SeqsUpTo(MaxLen) \cup {T4Seq}

ValidSeq(s) == \A i \in 1..Len(s) : is_valid_base(s[i])

\* SequenceAA::get_base : the raw byte at pos, panics when pos >= len
get_base(s, pos) == IF pos >= Len(s) THEN Panic ELSE s[pos + 1]

----------------------------------------------------------------------------
(* KmerSeqIterator *)

\* KmerSeqIterator::new : range = 0 .. seq.len() - 1, which overflows on an
\* empty sequence (panic with overflow checks, usize::MAX without)
KmerSeqIterator_new_panics(s, b) == Len(s) = 0 /\ b = "debug"

KmerSeqIterator_new_value(kmer_size, s) ==
    [nb_base |-> kmer_size, previous |-> None, range_start |-> 0,
     range_end |-> IF Len(s) = 0 THEN UsizeMax ELSE Len(s) - 1,
     base_position |-> 0]

RECURSIVE load_kmer(_, _, _, _)
load_kmer(k, s, pos, n) ==
    IF n = 0 THEN k ELSE load_kmer(push(k, get_base(s, pos)), s, pos + 1, n - 1)

\* mutant: the first k-mer is built from the k bases at the cursor, tested
\* against the end of the sequence (as the first test of next does)
next_first_loads(i, s, b) ==
    IF i.nb_base >= 1 /\ i.nb_base < 25 /\ i.base_position + i.nb_base <= Len(s)
    THEN LET k2 == load_kmer(KmerAA_new_value(i.nb_base), s, i.base_position, i.nb_base)
         IN  [it |-> [i EXCEPT !.previous = Some(k2),
                               !.base_position = i.base_position + i.nb_base],
              ret |-> <<"Some", k2>>,
              fed |-> [j \in 1..i.nb_base |->
                         <<i.base_position + j - 1, get_base(s, i.base_position + j - 1)>>]]
    ELSE [it |-> i, ret |-> <<"None">>, fed |-> <<>>]

\* mutant: the unfinished branch moves the cursor before returning None
next_first_advances(i, s, b) ==
    [it |-> [i EXCEPT !.base_position = i.base_position + 1],
     ret |-> <<"None">>, fed |-> <<>>]

\* next(), no previous k-mer (lines 358-365): computes pos = 5*(kmer_size-1),
\* which overflows for kmer_size = 0, builds nothing and returns None
next_first(i, s, b) ==
    IF i.nb_base = 0 /\ b = "debug"
    THEN [it |-> i, ret |-> <<"Panic">>, fed |-> <<>>]
    ELSE [it |-> i, ret |-> <<"None">>, fed |-> <<>>]

\* next(), a previous k-mer exists (lines 352-357)
next_push(i, s) ==
    LET c == get_base(s, i.base_position)
        k2 == push(i.previous[1], c)
    IN  [it |-> [i EXCEPT !.previous = Some(k2),
                          !.base_position = i.base_position + 1],
         ret |-> <<"Some", k2>>,
         fed |-> << <<i.base_position, c>> >>]

\* KmerSeqIterator::next
next_result(i, s, b) ==
    IF i.base_position >= Len(s)
    THEN [it |-> i, ret |-> <<"None">>, fed |-> <<>>]
    ELSE IF i.previous # None THEN next_push(i, s)
    ELSE next_first(i, s, b)

\* mutant: last = first is accepted
set_range_fails_lt(s, first, lst) == lst < first \/ lst > Len(s)

\* KmerSeqIterator::set_range : the test that returns Err(())
set_range_fails(s, first, lst) == lst <= first \/ lst > Len(s)

set_range_value(i, first, lst) ==
    [i EXCEPT !.range_start = first, !.range_end = lst, !.base_position = first]

\* the loop of generate_kmer_pattern : next() until None
RECURSIVE collect(_, _, _, _, _)
collect(i, s, b, acc, fuel) ==
    LET r == next_result(i, s, b)
    IN  IF r.ret[1] = "Panic" THEN <<"Panic">>
        ELSE IF r.ret[1] = "Some" /\ fuel > 0
             THEN collect(r.it, s, b, Append(acc, r.ret[2]), fuel - 1)
             ELSE <<"Ok", acc>>

\* KmerGenerator<KmerAA>::generate_kmer_pattern
generate_kmer_pattern_result(kmer_size, s, b) ==
    IF kmer_size > 25 THEN <<"Panic">>
    ELSE IF KmerSeqIterator_new_panics(s, b) THEN <<"Panic">>
    ELSE collect(KmerSeqIterator_new_value(kmer_size, s), s, b, <<>>, Len(s) + 1)

\* *kmer_distribution.entry(kmer).or_insert(0) += 1 on an IndexMap, kept as
\* the list of its <<key, count>> entries in insertion order
entry_add(map, key) ==
    IF \E n \in 1..Len(map) : map[n][1] = key
    THEN [n \in 1..Len(map) |->
             IF map[n][1] = key THEN <<key, map[n][2] + 1>> ELSE map[n]]
    ELSE Append(map, <<key, 1>>)

RECURSIVE accumulate(_, _)
accumulate(kmers, map) ==
    IF kmers = <<>> THEN map
    ELSE accumulate(Tail(kmers), entry_add(map, Head(kmers)))

\* KmerGenerator<KmerAA>::generate_kmer_distribution
generate_kmer_distribution_result(kmer_size, s, b) ==
    IF kmer_size > 25 THEN <<"Panic">>
    ELSE IF KmerSeqIterator_new_panics(s, b) THEN <<"Panic">>
    ELSE LET c == collect(KmerSeqIterator_new_value(kmer_size, s), s, b, <<>>, Len(s) + 1)
         IN  IF c[1] = "Panic" THEN <<"Panic">>
             ELSE <<"Ok", accumulate(c[2], <<>>)>>

----------------------------------------------------------------------------
(* Operations on one sequence and one iterator *)

IterSizes == (0..MaxK) \cup {4}
GenSizes == (0..MaxK) \cup {4, 25, 26}
Positions == 0..(MaxLen + 1)
RangeArgs == (Positions \X Positions) \cup {<<3, 8>>}

KmerSeqIterator_new ==
    /\ UNCHANGED <<sk, fs, mh>>
    /\ pc = "init"
    /\ \E kmer_size \in IterSizes :
         IF KmerSeqIterator_new_panics(seq, build)
         THEN /\ pc' = "panicked"
              /\ it' = it
              /\ last' = Call("KmerSeqIterator_new", kmer_size, 0, NoKmer, <<"Panic">>)
         ELSE /\ pc' = "iter"
              /\ it' = KmerSeqIterator_new_value(kmer_size, seq)
              /\ last' = Call("KmerSeqIterator_new", kmer_size, 0, NoKmer, <<"Ok">>)
    /\ UNCHANGED <<seq, build, emitted, nnext, nset, setAt, kmer, pushed>>

KmerSeqIterator_next ==
    /\ UNCHANGED <<sk, fs, mh>>
    /\ pc = "iter"
    /\ nnext < MaxNext
    /\ LET r == next_result(it, seq, build)
       IN  /\ it' = r.it
           /\ pc' = IF r.ret[1] = "Panic" THEN "panicked" ELSE pc
           /\ emitted' = IF r.ret[1] = "Some"
                         THEN Append(emitted,
                                [kmer |-> r.ret[2], fed |-> r.fed,
                                 p |-> r.fed[Len(r.fed)][1] - it.nb_base + 1,
                                 rs |-> it.range_start, re |-> it.range_end,
                                 ranged |-> nset > 0])
                         ELSE emitted
           /\ last' = Call("next", 0, 0, NoKmer, r.ret)
    /\ nnext' = nnext + 1
    /\ UNCHANGED <<seq, build, nset, setAt, kmer, pushed>>

set_range ==
    /\ UNCHANGED <<sk, fs, mh>>
    /\ pc = "iter"
    /\ nset < MaxSetRange
    /\ \E a \in RangeArgs :
         IF set_range_fails(seq, a[1], a[2])
         THEN /\ last' = Call("set_range", a[1], a[2], NoKmer, <<"Err">>)
              /\ UNCHANGED <<it, nset, setAt>>
         ELSE /\ last' = Call("set_range", a[1], a[2], NoKmer, <<"Ok">>)
              /\ it' = set_range_value(it, a[1], a[2])
              /\ nset' = nset + 1
              /\ setAt' = nnext
    /\ UNCHANGED <<seq, build, pc, emitted, nnext, kmer, pushed>>

SequenceAA_get_base ==
    /\ UNCHANGED <<sk, fs, mh>>
    /\ pc \in {"init", "iter"}
    /\ \E pos \in Positions :
         LET r == get_base(seq, pos)
         IN  /\ last' = Call("get_base", pos, 0, NoKmer,
                             IF r = Panic THEN <<"Panic">> ELSE <<"Byte", r>>)
             /\ pc' = IF r = Panic THEN "panicked" ELSE pc
    /\ UNCHANGED <<seq, build, it, emitted, nnext, nset, setAt, kmer, pushed>>

generate_kmer_pattern ==
    /\ UNCHANGED <<sk, fs, mh>>
    /\ pc = "init"
    /\ \E kmer_size \in GenSizes :
         LET r == generate_kmer_pattern_result(kmer_size, seq, build)
         IN  /\ last' = Call("generate_kmer_pattern", kmer_size, 0, NoKmer, r)
             /\ pc' = IF r[1] = "Panic" THEN "panicked" ELSE "done"
    /\ UNCHANGED <<seq, build, it, emitted, nnext, nset, setAt, kmer, pushed>>

generate_kmer_distribution ==
    /\ UNCHANGED <<sk, fs, mh>>
    /\ pc = "init"
    /\ \E kmer_size \in GenSizes :
         LET r == generate_kmer_distribution_result(kmer_size, seq, build)
         IN  /\ last' = Call("generate_kmer_distribution", kmer_size, 0, NoKmer, r)
             /\ pc' = IF r[1] = "Panic" THEN "panicked" ELSE "done"
    /\ UNCHANGED <<seq, build, it, emitted, nnext, nset, setAt, kmer, pushed>>

Init ==
    /\ sk = NoSketch
    /\ fs = NoFiles
    /\ mh = NoMinHash
    /\ seq \in Seqs
    /\ build \in {"debug", "release"}
    /\ pc = "init"
    /\ it = NoIter
    /\ emitted = <<>>
    /\ nnext = 0
    /\ nset = 0
    /\ setAt = 0
    /\ kmer = NoKmer
    /\ pushed = <<>>
    /\ last = NoCall

Next ==
    \/ KmerSeqIterator_new
    \/ KmerSeqIterator_next
    \/ set_range
    \/ SequenceAA_get_base
    \/ generate_kmer_pattern
    \/ generate_kmer_distribution

Spec == Init /\ [][Next]_vars

----------------------------------------------------------------------------
(* Properties of the iterator (checked under Spec) *)

\* the range the iterator is meant to cover: [0, len) until set_range succeeds
EffStart == IF nset = 0 THEN 0 ELSE it.range_start
EffEnd == IF nset = 0 THEN Len(seq) ELSE it.range_end

Uncompressed(es) == [i \in 1..Len(es) |-> get_uncompressed_kmer(es[i].kmer)]

\* C1: an unrestricted iterator over a valid sequence, with 1 <= k <= len,
\* has produced len - k + 1 k-mers when next() returns None, and
\* generate_kmer_pattern returns that many k-mers.
C1_KmerCount ==
    /\ (/\ pc = "iter" /\ nset = 0 /\ ValidSeq(seq)
        /\ 1 <= it.nb_base /\ it.nb_base <= Len(seq)
        /\ last.op = "next" /\ last.ret[1] = "None")
       => Len(emitted) = Len(seq) - it.nb_base + 1
    /\ (/\ last.op = "generate_kmer_pattern" /\ ValidSeq(seq)
        /\ 1 <= last.a /\ last.a <= Len(seq))
       => (last.ret[1] = "Ok" /\ Len(last.ret[2]) = Len(seq) - last.a + 1)

\* C2: on "MTEQIELIKL...", k = 4, after set_range(3, 8) the iterator has
\* emitted QIEL, IELI, ELIK, LIKL (uncompressed), in that order, when next()
\* returns None.
C2_RangeTest ==
    (/\ pc = "iter" /\ seq = T4Seq /\ it.nb_base = 4
     /\ nset = 1 /\ setAt = 0 /\ it.range_start = 3 /\ it.range_end = 8
     /\ last.op = "next" /\ last.ret[1] = "None")
    => Uncompressed(emitted) = T4Expected

C4_SetRange ==
    [][last'.op = "set_range" =>
         /\ (last'.ret = <<"Err">>) <=> (last'.b <= last'.a \/ last'.b > Len(seq))
         /\ last'.ret = <<"Err">> => it' = it
         /\ last'.ret = <<"Ok">> =>
               /\ it'.range_start = last'.a
               /\ it'.range_end = last'.b
               /\ it'.base_position = last'.a]_vars

\* C4 witness: a set_range that succeeded with first > 0 after a next().
C4_Witness ==
    /\ pc = "iter" /\ last.op = "set_range" /\ last.ret = <<"Ok">>
    /\ last.a > 0 /\ nnext > 0
    /\ it.range_start = last.a /\ it.range_end = last.b /\ it.base_position = last.a

\* C5: the i-th emission (i from 0) holds the symbols at positions
\* start+i .. start+i+k-1, each call of next() for which the window fits
\* in the range producing the next one.
C5_LeftToRight ==
    (pc = "iter" /\ ValidSeq(seq) /\ it.nb_base >= 1 /\ setAt = 0)
    => /\ \A i \in 1..Len(emitted) :
            get_uncompressed_kmer(emitted[i].kmer)
              = SubSeq(seq, EffStart + i, EffStart + i + it.nb_base - 1)
       /\ \A j \in 1..nnext :
            (EffStart + (j - 1) + it.nb_base <= EffEnd) => Len(emitted) >= j

\* C6: the value the iterator feeds to push() for position p, which it
\* obtains from the accessor get_base(p), is the code encode(seq[p]);
\* get_base at a position >= size panics.
C6_FeedsCodes ==
    /\ \A i \in 1..Len(emitted) : \A j \in 1..Len(emitted[i].fed) :
          emitted[i].fed[j][2] = encode(seq[emitted[i].fed[j][1] + 1])
    /\ last.op = "get_base" =>
          IF last.a >= Len(seq) THEN last.ret = <<"Panic">>
          ELSE last.ret = <<"Byte", encode(seq[last.a + 1])>>

----------------------------------------------------------------------------
(* Properties of KmerAA (checked under SpecKmer) *)

\* C7: a k-mer (k >= 1) obtained from KmerAA::new(k) by pushes of any bytes
\* has no bit set at or above position 5*k.
C7_HighBitsClear ==
    (pc \in {"kmer", "panicked"} /\ kmer.nb_base >= 1)
    => \A b \in get_compressed_value(kmer) : b < 5 * kmer.nb_base

\* C7 witness: a 1-mer into which the byte 255 was pushed last.
C7_Witness ==
    /\ pc = "kmer" /\ kmer.nb_base = 1 /\ Len(pushed) >= 2
    /\ pushed[Len(pushed)] = 255 /\ kmer.aa = 0..4

\* C8: after pushing k alphabet codes c1..ck into KmerAA::new(k), 1 <= k <= 25,
\* get_uncompressed_kmer returns decode(c1), ..., decode(ck).
C8_PushThenUncompress ==
    (/\ last.op = "get_uncompressed_kmer"
     /\ last.recv.nb_base \in 1..25 /\ Len(pushed) = last.recv.nb_base
     /\ \A i \in 1..Len(pushed) : pushed[i] \in AlphabetCodes)
    => last.ret = <<"Ok", [i \in 1..Len(pushed) |-> decode(pushed[i])]>>

\* C9: push(c) on a k-mer of value v returns a k-mer with the same nb_base
\* and value ((v << 5) mod 2^(5k)) | c.
C9_PushValue ==
    (last.op = "push" /\ last.a < 32)
    => /\ kmer.nb_base = last.recv.nb_base
       /\ kmer.aa = (Shl(last.recv.aa, 5) \cap LowMask(5 * last.recv.nb_base))
                      \cup BitsOf(last.a, 5)

\* C10: KmerAA::new(k) returns the all-zero k-mer of nb_base k for
\* 1 <= k <= 25 and panics only for k > 25.
C10_NewUpTo25 ==
    last.op = "KmerAA_new"
    => /\ last.a \in 1..get_nb_base_max
            => (last.ret = <<"Ok">> /\ kmer = [aa |-> {}, nb_base |-> last.a])
       /\ last.ret = <<"Panic">> => last.a > get_nb_base_max

----------------------------------------------------------------------------
(* Operations of the Alphabet (specification SpecAlphabet) *)

U8Max == 255
U8 == 0..U8Max

Alphabet_encode ==
    /\ UNCHANGED <<sk, fs, mh>>
    /\ pc = "init"
    /\ \E c \in U8 :
         LET r == encode(c)
         IN  /\ last' = Call("encode", c, 0, NoKmer,
                             IF r = Panic THEN <<"Panic">> ELSE <<"Ok", r>>)
             /\ pc' = IF r = Panic THEN "panicked" ELSE pc
    /\ UNCHANGED <<itvars, kmvars>>

Alphabet_decode ==
    /\ UNCHANGED <<sk, fs, mh>>
    /\ pc = "init"
    /\ \E c \in U8 :
         LET r == decode(c)
         IN  /\ last' = Call("decode", c, 0, NoKmer,
                             IF r = Panic THEN <<"Panic">> ELSE <<"Ok", r>>)
             /\ pc' = IF r = Panic THEN "panicked" ELSE pc
    /\ UNCHANGED <<itvars, kmvars>>

InitAlphabet ==
    /\ sk = NoSketch
    /\ fs = NoFiles
    /\ mh = NoMinHash
    /\ seq = <<>>
    /\ build = "debug"
    /\ pc = "init"
    /\ it = NoIter
    /\ emitted = <<>>
    /\ nnext = 0
    /\ nset = 0
    /\ setAt = 0
    /\ kmer = NoKmer
    /\ pushed = <<>>
    /\ last = NoCall

NextAlphabet ==
    \/ Alphabet_encode
    \/ Alphabet_decode

SpecAlphabet == InitAlphabet /\ [][NextAlphabet]_vars

\* C11 (as claimed): encode returns a code in 1..20 for each of the 20
\* symbols, never 0, and panics for every other byte.
C11_EncodeIn1to20 ==
    last.op = "encode"
    => IF last.a \in AlphabetBases
       THEN last.ret[1] = "Ok" /\ last.ret[2] \in 1..Cardinality(AlphabetBases)
       ELSE last.ret = <<"Panic">>

\* C11 (amended): encode returns a code in 1..21 for each of the 20 symbols,
\* never 0, and panics for every other byte.
C11_EncodeIn1to21 ==
    last.op = "encode"
    => IF last.a \in AlphabetBases
       THEN last.ret[1] = "Ok" /\ last.ret[2] \in 1..(Cardinality(AlphabetBases) + 1)
       ELSE last.ret = <<"Panic">>

\* C11 witness: 'Y' was encoded, to 21.
C11_Witness == last.op = "encode" /\ last.a = 89 /\ last.ret = <<"Ok", 21>>

\* C12: decode returns b for the code of every symbol b, and panics on every
\* 5-bit pattern that is the code of no symbol (0 included).
C12_DecodeInvertsEncode ==
    last.op = "decode"
    => /\ \A b \in AlphabetBases : encode(b) = last.a => last.ret = <<"Ok", b>>
       /\ (last.a \in 0..31 /\ \A b \in AlphabetBases : encode(b) # last.a)
            => last.ret = <<"Panic">>

\* C12 witness: the code of 'Q' was decoded to 'Q'.
C12_Witness == last.op = "decode" /\ last.a = encode(81) /\ last.ret = <<"Ok", 81>>

----------------------------------------------------------------------------
(* Construction of a SequenceAA (specification SpecSeq) *)

MaxBuf == 3                      \* longest byte buffer given to the constructors
BufBytes == {65, 67, 32, 10}     \* 'A', 'C', space, newline

RECURSIVE BuffersUpTo(_)
BuffersUpTo(n) ==
    IF n = 0 THEN {<<>>}
    ELSE LET S == BuffersUpTo(n - 1)
         IN  S \cup {Append(x, c) : x \in {y \in S : Len(y) = n - 1}, c \in BufBytes}

Buffers == BuffersUpTo(MaxBuf)

\* the closure handed to map() in SequenceAA::new and from_str panics on a byte
\* outside the alphabet, but the Map adaptor is dropped without being
\* consumed, so the closure runs for no byte
checked_bytes(buf) == {}

SequenceAA_new_panics(buf) ==
    \E i \in checked_bytes(buf) : ~is_valid_base(buf[i])

SequenceAA_new ==
    /\ UNCHANGED <<sk, fs, mh>>
    /\ pc = "init"
    /\ \E buf \in Buffers :
         IF SequenceAA_new_panics(buf)
         THEN /\ pc' = "panicked"
              /\ seq' = seq
              /\ last' = Call("SequenceAA_new", buf, 0, NoKmer, <<"Panic">>)
         ELSE /\ pc' = "seq"
              /\ seq' = buf
              /\ last' = Call("SequenceAA_new", buf, 0, NoKmer, <<"Ok">>)
    /\ UNCHANGED <<build, it, emitted, nnext, nset, setAt, kmvars>>

SequenceAA_from_str ==
    /\ UNCHANGED <<sk, fs, mh>>
    /\ pc = "init"
    /\ \E buf \in Buffers :
         IF SequenceAA_new_panics(buf)
         THEN /\ pc' = "panicked"
              /\ seq' = seq
              /\ last' = Call("from_str", buf, 0, NoKmer, <<"Panic">>)
         ELSE /\ pc' = "seq"
              /\ seq' = buf
              /\ last' = Call("from_str", buf, 0, NoKmer, <<"Ok">>)
    /\ UNCHANGED <<build, it, emitted, nnext, nset, setAt, kmvars>>

\* SequenceAA::len
SequenceAA_len ==
    /\ UNCHANGED <<sk, fs, mh>>
    /\ pc = "seq"
    /\ last' = Call("len", 0, 0, NoKmer, <<"Ok", Len(seq)>>)
    /\ UNCHANGED <<pc, itvars, kmvars>>

InitSeq ==
    /\ sk = NoSketch
    /\ fs = NoFiles
    /\ mh = NoMinHash
    /\ seq = <<>>
    /\ build = "debug"
    /\ pc = "init"
    /\ it = NoIter
    /\ emitted = <<>>
    /\ nnext = 0
    /\ nset = 0
    /\ setAt = 0
    /\ kmer = NoKmer
    /\ pushed = <<>>
    /\ last = NoCall

NextSeq ==
    \/ SequenceAA_new
    \/ SequenceAA_from_str
    \/ SequenceAA_len

SpecSeq == InitSeq /\ [][NextSeq]_vars

\* C13: SequenceAA::new and from_str return a sequence exactly when every
\* byte of the buffer is an alphabet symbol, and fail otherwise.
C13_ConstructionValidates ==
    last.op \in {"SequenceAA_new", "from_str"}
    => ((last.ret[1] = "Ok") <=> ValidSeq(last.a))

----------------------------------------------------------------------------
(* Further properties of the iterator and the generator (checked under Spec) *)

\* C14: right after KmerSeqIterator::new(k, sequence) the cursor is 0,
\* previous is none and the range is [0, sequence.size()).
C14_NewState ==
    (last.op = "KmerSeqIterator_new" /\ last.ret = <<"Ok">>)
    => /\ it.base_position = 0
       /\ it.previous = None
       /\ it.range_start = 0
       /\ it.range_end = Len(seq)

\* C15: for a sequence shorter than k (the empty one included) the
\* construction of an unrestricted iterator neither fails nor underflows,
\* next() returns none, and generate_kmer_pattern / generate_kmer_distribution
\* return no k-mer.
C15_ShortSequence ==
    /\ (last.op = "KmerSeqIterator_new" /\ Len(seq) < last.a)
       => (last.ret = <<"Ok">> /\ it.range_end <= Len(seq))
    /\ (last.op = "next" /\ nset = 0 /\ Len(seq) < it.nb_base)
       => (last.ret = <<"None">> /\ emitted = <<>>)
    /\ (/\ last.op \in {"generate_kmer_pattern", "generate_kmer_distribution"}
        /\ Len(seq) < last.a /\ last.a <= get_nb_base_max)
       => last.ret = <<"Ok", <<>> >>

\* C16: the stream is finite and non-restartable: for k >= 1 next() never
\* panics and emits at most one k-mer per position, and once next() has
\* returned none a following next() returns none and leaves the iterator as
\* it was.
C16_NonRestartable ==
    /\ []((it.nb_base >= 1 /\ last.op = "next")
            => (last.ret[1] \in {"None", "Some"} /\ Len(emitted) <= Len(seq)))
    /\ [][(last.op = "next" /\ last.ret[1] = "None" /\ last'.op = "next")
            => (last'.ret[1] = "None" /\ it' = it /\ emitted' = emitted)]_vars

\* C16 witness: a second next() returned none although a window of k
\* symbols lies at the cursor.
C16_Witness ==
    /\ pc = "iter" /\ nnext >= 2 /\ it.nb_base >= 1
    /\ it.base_position + it.nb_base <= Len(seq)
    /\ last.op = "next" /\ last.ret[1] = "None"

RECURSIVE SumCounts(_)
SumCounts(pairs) ==
    IF pairs = <<>> THEN 0 ELSE Head(pairs)[2] + SumCounts(Tail(pairs))

NbWindows(s, k) == IF Len(s) >= k THEN Len(s) - k + 1 ELSE 0

\* C17: the multiplicities returned by generate_kmer_distribution sum to
\* max(0, s.size - k + 1).
C17_MultiplicitySum ==
    (/\ last.op = "generate_kmer_distribution" /\ ValidSeq(seq)
     /\ 1 <= last.a /\ last.a <= get_nb_base_max /\ Len(seq) >= 1)
    => (last.ret[1] = "Ok" /\ SumCounts(last.ret[2]) = NbWindows(seq, last.a))

\* the windows of s, and the positions at which a window occurs first
Windows(s, k) == [i \in 1..NbWindows(s, k) |-> SubSeq(s, i, i + k - 1)]
FirstOccurrences(s, k) ==
    {i \in 1..NbWindows(s, k) : \A j \in 1..(i - 1) : Windows(s, k)[j] # Windows(s, k)[i]}
NthOf(S, n) == CHOOSE i \in S : Cardinality({j \in S : j < i}) = n - 1

\* C18: generate_kmer_distribution returns one pair per distinct k-mer of
\* the sequence, with the number of windows holding it, in the order of
\* first occurrence.
C18_Distribution ==
    (/\ last.op = "generate_kmer_distribution" /\ ValidSeq(seq)
     /\ 1 <= last.a /\ last.a <= get_nb_base_max /\ Len(seq) >= 1)
    => /\ last.ret[1] = "Ok"
       /\ Len(last.ret[2]) = Cardinality(FirstOccurrences(seq, last.a))
       /\ \A n \in 1..Len(last.ret[2]) :
            LET w == Windows(seq, last.a)[NthOf(FirstOccurrences(seq, last.a), n)]
            IN  /\ get_uncompressed_kmer(last.ret[2][n][1]) = w
                /\ last.ret[2][n][2]
                     = Cardinality({i \in 1..NbWindows(seq, last.a) :
                                       Windows(seq, last.a)[i] = w})

----------------------------------------------------------------------------
(* The batch sketch drivers (specification SpecSketch)                      *)
(* aautils/seqsketchjaccard.rs : ProbHash3aSketch, SuperHashSketch,         *)
(* SeqSketcher::sketch_probminhash3a, SeqSketcher::sketch_superminhash;     *)
(* rnautils/seqsketchjaccard.rs :                                           *)
(* SeqSketcher::sketch_probminhash3a_compressed_kmeraa128bit.               *)
(* Each driver maps comput_closure over 0..vseq.len() in parallel, collects *)
(* the pairs (rank, signature) and stores each signature at its rank.  The  *)
(* sketchers ProbMinHash3a and SuperMinHash belong to another crate: a      *)
(* signature is kept as the term [algo, input] naming what was handed to    *)
(* the sketcher.                                                            *)

MaxBatch == 3        \* largest number of sequences in a batch

AaDrivers == {"ProbHash3aSketch", "SuperHashSketch",
              "SeqSketcher_probminhash3a", "SeqSketcher_superminhash"}
RnaDrivers == {"SeqSketcher_probminhash3a_compressed_kmeraa128bit"}
Drivers == AaDrivers \cup RnaDrivers
SuperDrivers == {"SuperHashSketch", "SeqSketcher_superminhash"}

SketchSeqs == {<<>>, <<65>>, <<65, 67>>}
SketchKmerSizes == {1}
FHashes == {"id", "const"}

RECURSIVE BatchesUpTo(_)
BatchesUpTo(n) ==
    IF n = 0 THEN {<<>>}
    ELSE LET S == BatchesUpTo(n - 1)
         IN  S \cup {Append(x, q) : x \in {y \in S : Len(y) = n - 1}, q \in SketchSeqs}

\* fhash : the caller's k-mer -> key function; "id" is the k-mer itself,
\* "const" maps every k-mer to the key 0
fhash_apply(f, km) == IF f = "id" THEN km ELSE 0

\* the k-mers the iterator of aautils::kmeraa yields after
\* set_range(0, seqb.size()).unwrap(): set_range fails when last <= first,
\* so the unwrap panics on an empty sequence; otherwise the windows in order
aa_kmer_stream(s, k) ==
    IF Len(s) = 0 THEN <<"Panic">> ELSE <<"Ok", Windows(s, k)>>

RECURSIVE insert_new(_, _, _)
\* wb.insert(fhash(kmer), count), panicking when the key is already present
insert_new(pairs, f, wb) ==
    IF pairs = <<>> THEN <<"Ok", wb>>
    ELSE LET key == fhash_apply(f, Head(pairs)[1])
         IN  IF \E n \in 1..Len(wb) : wb[n][1] = key THEN <<"Panic">>
             ELSE insert_new(Tail(pairs), f, Append(wb, <<key, Head(pairs)[2]>>))

Range(q) == {q[n] : n \in 1..Len(q)}

\* comput_closure of the rnautils driver (lines 113-134)
rna_comput_closure(s, k, f, b) ==
    LET kmers == generate_kmer_distribution_result(k % 256, s, b)
    IN  IF kmers[1] = "Panic" THEN <<"Panic">>
        ELSE LET wb == insert_new(kmers[2], f, <<>>)
             IN  IF wb[1] = "Panic" THEN <<"Panic">>
                 ELSE <<"Ok", [algo |-> "PROB3A", input |-> wb[2]]>>

\* comput_closure of the two PROB3A drivers of aautils (lines 103-124, 328-349):
\* *wb.entry(fhash(kmer)).or_insert(0) += 1 on an unordered FnvHashMap
aa_prob_comput_closure(s, k, f) ==
    LET st == aa_kmer_stream(s, k)
    IN  IF st[1] = "Panic" THEN <<"Panic">>
        ELSE <<"Ok", [algo |-> "PROB3A",
                      input |-> Range(accumulate(
                                  [n \in 1..Len(st[2]) |-> fhash_apply(f, st[2][n])], <<>>))]>>

\* sminhash.sketch(&hashval) returned an error for some k-mer of s
sketch_errs(d, s, k, sketch_fails) ==
    /\ d \in SuperDrivers
    /\ sketch_fails
    /\ aa_kmer_stream(s, k)[1] = "Ok"
    /\ aa_kmer_stream(s, k)[2] # <<>>

\* mutant: an error of sminhash.sketch is logged and the loop goes on
aa_super_comput_closure_skip(s, k, f, sketch_fails) ==
    LET st == aa_kmer_stream(s, k)
    IN  IF st[1] = "Panic" THEN <<"Panic">>
        ELSE <<"Ok", [algo |-> "SUPER",
                      input |-> [n \in 1..Len(st[2]) |-> fhash_apply(f, st[2][n])]]>>

\* comput_closure of the two SuperMinHash drivers of aautils (lines 198-227,
\* 379-404): every k-mer key goes to sminhash.sketch, whose Err is a panic
aa_super_comput_closure(s, k, f, sketch_fails) ==
    LET st == aa_kmer_stream(s, k)
    IN  IF st[1] = "Panic" THEN <<"Panic">>
        ELSE IF sketch_fails /\ st[2] # <<>> THEN <<"Panic">>
        ELSE <<"Ok", [algo |-> "SUPER",
                      input |-> [n \in 1..Len(st[2]) |-> fhash_apply(f, st[2][n])]]>>

comput_closure(d, s, k, f, b, sketch_fails) ==
    IF d \in RnaDrivers THEN rna_comput_closure(s, k, f, b)
    ELSE IF d \in SuperDrivers THEN aa_super_comput_closure(s, k, f, sketch_fails)
    ELSE aa_prob_comput_closure(s, k, f)

\* mutant: the signatures are stored in the order in which they were collected
reorder_by_position(n, swr) == [j \in 1..n |-> swr[j][2]]

\* jaccard_vec = n empty vectors, then jaccard_vec[slot] = signature for each
\* collected pair (slot, signature); slots are 0-based
reorder(n, swr) ==
    [j \in 1..n |->
        IF \E m \in 1..Len(swr) : swr[m][1] = j - 1
        THEN swr[CHOOSE m \in 1..Len(swr) :
                    /\ swr[m][1] = j - 1
                    /\ \A m2 \in (m + 1)..Len(swr) : swr[m2][1] # j - 1][2]
        ELSE <<>>]

RanksDone == {sk.sig_with_rank[m][1] : m \in 1..Len(sk.sig_with_rank)}

\* one parallel worker runs comput_closure(vseq[i], i); workers finish in any
\* order, and a panic of one worker is the panic of the call
sketch_worker ==
    /\ pc = "sketching"
    /\ \E i \in 0..(Len(sk.vseq) - 1), sketch_fails \in BOOLEAN :
         /\ i \notin RanksDone
         /\ LET r == comput_closure(sk.driver, sk.vseq[i + 1], sk.kmer_size,
                                    sk.fhash, build, sketch_fails)
                e == sketch_errs(sk.driver, sk.vseq[i + 1], sk.kmer_size, sketch_fails)
            IN  IF r[1] = "Panic"
                THEN /\ pc' = "panicked"
                     /\ sk' = [sk EXCEPT !.sketch_err = @ \/ e]
                ELSE /\ pc' = pc
                     /\ sk' = [sk EXCEPT !.sig_with_rank =
                                            Append(@, <<i, [from |-> i, sig |-> r[2]]>>),
                                         !.sketch_err = @ \/ e]
    /\ UNCHANGED <<itvars, kmvars, last, fs, mh>>

\* all workers are done: re-order and return jaccard_vec
sketch_return ==
    /\ pc = "sketching"
    /\ Len(sk.sig_with_rank) = Len(sk.vseq)
    /\ sk' = [sk EXCEPT !.jaccard_vec = reorder(Len(sk.vseq), sk.sig_with_rank)]
    /\ pc' = "returned"
    /\ UNCHANGED <<itvars, kmvars, last, fs, mh>>

InitSketch ==
    /\ seq = <<>>
    /\ build \in {"debug", "release"}
    /\ pc = "sketching"
    /\ it = NoIter
    /\ emitted = <<>>
    /\ nnext = 0
    /\ nset = 0
    /\ setAt = 0
    /\ kmer = NoKmer
    /\ pushed = <<>>
    /\ last = NoCall
    /\ fs = NoFiles
    /\ mh = NoMinHash
    /\ \E d \in Drivers, v \in BatchesUpTo(MaxBatch), k \in SketchKmerSizes, f \in FHashes :
         sk = [driver |-> d, vseq |-> v, kmer_size |-> k, fhash |-> f,
               sig_with_rank |-> <<>>, jaccard_vec |-> <<>>, sketch_err |-> FALSE]

NextSketch ==
    \/ sketch_worker
    \/ sketch_return

SpecSketch == InitSketch /\ [][NextSketch]_vars

\* C19: a driver that returns, returns exactly N signatures, and the
\* signature at index i is the one computed from input sequence i, whatever
\* the order in which the workers finished.
C19_InputOrder ==
    pc = "returned"
    => /\ Len(sk.jaccard_vec) = Len(sk.vseq)
       /\ \A j \in 1..Len(sk.vseq) :
            /\ sk.jaccard_vec[j] # <<>>
            /\ sk.jaccard_vec[j].from = j - 1
            /\ \E sf \in BOOLEAN :
                 <<"Ok", sk.jaccard_vec[j].sig>>
                   = comput_closure(sk.driver, sk.vseq[j], sk.kmer_size, sk.fhash, build, sf)

\* C19 witness: a batch of three different inputs has been returned although
\* the worker of the last input finished first.
C19_Witness ==
    /\ pc = "returned" /\ Len(sk.vseq) = 3
    /\ sk.vseq[1] # sk.vseq[2] /\ sk.vseq[2] # sk.vseq[3]
    /\ sk.sig_with_rank[1][1] = 2
    /\ sk.jaccard_vec[3].from = 2

----------------------------------------------------------------------------
(* Persistence of the sketching parameters (specification SpecJson)         *)
(* SeqSketcher::dump_json / SeqSketcher::reload_json, the same code in      *)
(* aautils/seqsketchjaccard.rs (276-316) and rnautils/seqsketchjaccard.rs   *)
(* (60-100).  A file is the sequence of the characters written to it; the   *)
(* JSON text of a record is produced digit by digit and parsed back.        *)

MaxFsOps == 2        \* max number of dump_json / reload_json calls

DumpName == "sketchparams_dump.json"
Dirs == {"d1", "d2"}
FileNames == {DumpName, "params.json"}
\* dirpath.join(name)
join(dir, name) == <<dir, name>>
Paths == {join(dir, name) : dir \in Dirs, name \in FileNames}

\* SeqSketcher { kmer_size, sketch_size }
SeqSketcher_new(kmer_size, sketch_size) ==
    [kmer_size |-> kmer_size, sketch_size |-> sketch_size]
Sketchers == {SeqSketcher_new(0, 0), SeqSketcher_new(5, 400),
              SeqSketcher_new(12, 7), SeqSketcher_new(UsizeMax, 10)}

DigitChars == <<"0", "1", "2", "3", "4", "5", "6", "7", "8", "9">>
IsDigit(c) == \E d \in 1..10 : DigitChars[d] = c
DigitVal(c) == (CHOOSE d \in 1..10 : DigitChars[d] = c) - 1

RECURSIVE itoa(_)
\* the decimal text of a usize, as serde_json writes it
itoa(n) == IF n < 10 THEN <<DigitChars[n + 1]>>
           ELSE Append(itoa(n \div 10), DigitChars[(n % 10) + 1])

\* to_writer(&mut writer, &self) : {"kmer_size":K,"sketch_size":M}
to_json(r) ==
    <<"{", "\"kmer_size\"", ":">> \o itoa(r.kmer_size)
      \o <<",", "\"sketch_size\"", ":">> \o itoa(r.sketch_size) \o <<"}">>

RECURSIVE digits_prefix(_)
digits_prefix(t) ==
    IF t # <<>> /\ IsDigit(Head(t)) THEN <<Head(t)>> \o digits_prefix(Tail(t)) ELSE <<>>

RECURSIVE atoi(_, _)
atoi(ds, acc) == IF ds = <<>> THEN acc ELSE atoi(Tail(ds), acc * 10 + DigitVal(Head(ds)))

\* a JSON unsigned number at the head of t: <<"Ok", value, rest>> or <<"Err">>
\* (no digit, or a leading zero followed by a digit, is a syntax error)
parse_usize(t) ==
    LET ds == digits_prefix(t)
    IN  IF ds = <<>> \/ (Len(ds) > 1 /\ ds[1] = "0") THEN <<"Err">>
        ELSE <<"Ok", atoi(ds, 0), SubSeq(t, Len(ds) + 1, Len(t))>>

\* "key" : number at the head of t: <<"Ok", key, value, rest>> or <<"Err">>
parse_field(t) ==
    IF Len(t) < 3 \/ t[1] \notin {"\"kmer_size\"", "\"sketch_size\""} \/ t[2] # ":"
    THEN <<"Err">>
    ELSE LET n == parse_usize(SubSeq(t, 3, Len(t)))
         IN  IF n[1] = "Err" THEN <<"Err">> ELSE <<"Ok", t[1], n[2], n[3]>>

\* serde_json::from_reader for SeqSketcher: an object with the two fields in
\* either order, nothing missing, nothing repeated, nothing after it
from_json(t) ==
    IF t = <<>> \/ Head(t) # "{" THEN <<"Err">>
    ELSE LET f1 == parse_field(Tail(t))
         IN  IF f1[1] = "Err" \/ f1[4] = <<>> \/ Head(f1[4]) # "," THEN <<"Err">>
             ELSE LET f2 == parse_field(Tail(f1[4]))
                  IN  IF f2[1] = "Err" \/ f2[2] = f1[2] \/ f2[4] # <<"}">> THEN <<"Err">>
                      ELSE IF f1[2] = "\"kmer_size\""
                           THEN <<"Ok", SeqSketcher_new(f1[3], f2[3])>>
                           ELSE <<"Ok", SeqSketcher_new(f2[3], f1[3])>>

\* a file that does not exist
Absent == <<"absent">>

\* mutant: the file is opened without truncate(true), the text overwrites the
\* head of the old content
write_over_notrunc(old, text) ==
    IF old = Absent THEN text ELSE text \o SubSeq(old, Len(text) + 1, Len(old))

\* OpenOptions::new().write(true).create(true).truncate(true).open, then the
\* text is written: the old content is gone
write_over(old, text) == text

\* what is in the file when the flush of the BufWriter fails: the writer is
\* dropped at the end of dump_json and the error of its flush is ignored
PartialWrites(text) == {<<>>, SubSeq(text, 1, Len(text) \div 2)}

\* files that exist before the first call
ForeignContents == {Absent, <<>>, <<"{", "\"kmer_size\"", ":", "0", "5", "}">>,
                    to_json(SeqSketcher_new(UsizeMax, UsizeMax))}

\* dump_json(&self, filename)
dump_json ==
    /\ pc = "fs"
    /\ fs.nops < MaxFsOps
    /\ \E r \in Sketchers, filepath \in Paths, open_fails \in BOOLEAN, write_fails \in BOOLEAN :
         IF open_fails
         THEN /\ fs' = [fs EXCEPT !.nops = @ + 1]
              /\ last' = Call("dump_json", r, filepath, <<"open">>, <<"Err">>)
         ELSE IF write_fails
         THEN \E part \in PartialWrites(to_json(r)) :
                /\ fs' = [fs EXCEPT !.files[filepath] = part,
                                    !.clean[filepath] = None,
                                    !.nops = @ + 1]
                /\ last' = Call("dump_json", r, filepath, <<"write">>, <<"Ok">>)
         ELSE /\ fs' = [fs EXCEPT !.files[filepath] = write_over(@, to_json(r)),
                                  !.clean[filepath] = Some(r),
                                  !.nops = @ + 1]
              /\ last' = Call("dump_json", r, filepath, <<>>, <<"Ok">>)
    /\ pc' = pc
    /\ UNCHANGED <<itvars, kmvars, sk, mh>>

\* reload_json(dirpath)
reload_json ==
    /\ pc = "fs"
    /\ fs.nops < MaxFsOps
    /\ \E dirpath \in Dirs, open_fails \in BOOLEAN, read_fails \in BOOLEAN :
         LET filepath == join(dirpath, DumpName)
             content == fs.files[filepath]
         IN  /\ fs' = [fs EXCEPT !.nops = @ + 1]
             /\ IF open_fails \/ content = Absent
                THEN /\ last' = Call("reload_json", dirpath, filepath, <<"open">>, <<"Err">>)
                     /\ pc' = pc
                ELSE IF read_fails
                THEN /\ last' = Call("reload_json", dirpath, filepath, <<"read">>, <<"Panic">>)
                     /\ pc' = "panicked"
                ELSE IF from_json(content)[1] = "Err"
                THEN /\ last' = Call("reload_json", dirpath, filepath, <<"parse">>, <<"Panic">>)
                     /\ pc' = "panicked"
                ELSE /\ last' = Call("reload_json", dirpath, filepath, <<>>, from_json(content))
                     /\ pc' = pc
    /\ UNCHANGED <<itvars, kmvars, sk, mh>>

InitJson ==
    /\ seq = <<>>
    /\ build = "debug"
    /\ pc = "fs"
    /\ it = NoIter
    /\ emitted = <<>>
    /\ nnext = 0
    /\ nset = 0
    /\ setAt = 0
    /\ kmer = NoKmer
    /\ pushed = <<>>
    /\ last = NoCall
    /\ sk = NoSketch
    /\ mh = NoMinHash
    /\ \E c \in ForeignContents :
         fs = [files |-> [p \in Paths |-> IF p = join("d1", DumpName) THEN c ELSE Absent],
               clean |-> [p \in Paths |-> None],
               nops |-> 0]

NextJson ==
    \/ dump_json
    \/ reload_json

SpecJson == InitJson /\ [][NextJson]_vars

\* C21: reload_json on a directory whose sketchparams_dump.json was last
\* written by a dump_json (no input/output fault in either call) returns a
\* record with the kmer_size and the sketch_size that were dumped.
C21_DumpThenReload ==
    (/\ last.op = "reload_json"
     /\ last.recv \notin {<<"open">>, <<"read">>}
     /\ fs.clean[last.b] # None)
    => /\ last.ret[1] = "Ok"
       /\ last.ret[2].kmer_size = fs.clean[last.b][1].kmer_size
       /\ last.ret[2].sketch_size = fs.clean[last.b][1].sketch_size

\* C21 witness: a record with a many-digit field was dumped over an older,
\* longer file and has been reloaded.
C21_Witness ==
    /\ last.op = "reload_json"
    /\ last.b = join("d1", DumpName)
    /\ fs.clean[last.b] = Some(SeqSketcher_new(5, 400))
    /\ last.ret = <<"Ok", SeqSketcher_new(5, 400)>>

\* C22: every persistence failure of dump_json or reload_json (open, read,
\* write, invalid content) is reported as an Err value: no call terminates
\* fatally, and a failed reload yields no record.
C22_FailuresAreErr ==
    (last.op \in {"dump_json", "reload_json"} /\ last.recv # <<>>)
    => (last.ret = <<"Err">> /\ pc # "panicked")

\* C23: once sminhash.sketch has returned an error for a k-mer of one
\* sequence of the batch, the call has failed fatally and no list of
\* signatures, complete or partial, is ever returned.
C23_SketchErrorIsFatal ==
    sk.sketch_err => (pc = "panicked" /\ sk.jaccard_vec = <<>>)

\* C23 witness: the sketch of one sequence failed after the workers of two
\* other sequences of the batch had finished.
C23_Witness ==
    /\ sk.sketch_err
    /\ pc = "panicked"
    /\ Len(sk.vseq) = 3
    /\ Len(sk.sig_with_rank) = 2

\* the multiset of a sequence: each key v with the number of windows whose
\* k-mer has fhash(kmer) = v
ExpectedMultiset(s, k, f) ==
    LET keys == [i \in 1..NbWindows(s, k) |-> fhash_apply(f, Windows(s, k)[i])]
    IN  {<<keys[i], Cardinality({j \in 1..Len(keys) : keys[j] = keys[i]})>> : i \in 1..Len(keys)}

\* the map handed to ProbMinHash3a by a driver, as a set of (key, count),
\* a k-mer key being named by its symbols
BuiltMultiset(d, f, input) ==
    IF d \in RnaDrivers
    THEN {<<IF f = "id" THEN get_uncompressed_kmer(e[1]) ELSE e[1], e[2]>> : e \in Range(input)}
    ELSE input

\* C30: in every PROB3A driver the map built for a sequence holds, for each
\* key v, the number of windows whose k-mer has fhash(kmer) = v, also when
\* fhash is not injective, and building it does not fail; the aautils and
\* rnautils drivers therefore build the same map.
C30_ProbMultiset ==
    sk.driver \in Drivers \ SuperDrivers
    => /\ \A m \in 1..Len(sk.sig_with_rank) :
            BuiltMultiset(sk.driver, sk.fhash, sk.sig_with_rank[m][2].sig.input)
              = ExpectedMultiset(sk.vseq[sk.sig_with_rank[m][1] + 1], sk.kmer_size, sk.fhash)
       /\ pc = "panicked" => \E j \in 1..Len(sk.vseq) : sk.vseq[j] = <<>>

----------------------------------------------------------------------------
(* MinHashCount and minhash_distance (minhash.rs, specification SpecMinHash) *)
(* mh.hashes is the array of the BinaryHeap (a max-heap on the hash), kept   *)
(* by the sift operations of the standard heap; mh.counts is the HashMap     *)
(* from hash to its u16 count.                                               *)

MaxSize == 3         \* largest capacity given to MinHashCount::new
MaxItem == 4         \* items are 0..MaxItem
MaxMhPush == 3       \* max number of push / sketch_slice calls on one object
MaxSketch == 2       \* longest second sketch given to minhash_distance

U16Max == 65535

Items == 0..MaxItem
\* hasher.finish() after item.hash(&mut hasher): a fixed function of the
\* item, neither monotone nor injective
hasher_finish(item) == (item * 3) % 5

HashedItem(hash, item, keep_item) ==
    [hash |-> hash, item |-> IF keep_item THEN Some(item) ELSE None]

RECURSIVE sift_up(_, _, _)
\* BinaryHeap: move the element e up from the hole at pos (0-based)
sift_up(data, pos, e) ==
    IF pos > 0 /\ e.hash > data[((pos - 1) \div 2) + 1].hash
    THEN sift_up([data EXCEPT ![pos + 1] = data[((pos - 1) \div 2) + 1]],
                 (pos - 1) \div 2, e)
    ELSE [data EXCEPT ![pos + 1] = e]

RECURSIVE sift_down_to_bottom(_, _)
\* BinaryHeap: move the hole at pos down to a leaf, always towards the
\* greater child; gives <<data, position of the hole>>
sift_down_to_bottom(data, pos) ==
    LET end == Len(data)
        child == 2 * pos + 1
    IN  IF child + 2 <= end
        THEN LET c == IF data[child + 1].hash <= data[child + 2].hash
                      THEN child + 1 ELSE child
             IN  sift_down_to_bottom([data EXCEPT ![pos + 1] = data[c + 1]], c)
        ELSE IF child = end - 1
        THEN <<[data EXCEPT ![pos + 1] = data[child + 1]], child>>
        ELSE <<data, pos>>

\* self.hashes.push(x)
heap_push(data, x) == sift_up(Append(data, x), Len(data), x)

\* self.hashes.pop() on a non-empty heap: <<greatest item, remaining heap>>
heap_pop(data) ==
    LET item == data[Len(data)]
        rest == SubSeq(data, 1, Len(data) - 1)
    IN  IF rest = <<>> THEN <<item, <<>>>>
        ELSE LET h == sift_down_to_bottom(rest, 0)
             IN  <<rest[1], sift_up(h[1], h[2], item)>>

\* MinHashCount::new(size, keep_item)
MinHashCount_new(size, keep_item) ==
    [size |-> size, keep_item |-> keep_item, hashes |-> <<>>, counts |-> <<>>,
     total_count |-> 0]

HashesOf(data) == {data[n].hash : n \in 1..Len(data)}

\* HashMap::remove(key)
map_remove(counts, key) == [h \in DOMAIN counts \ {key} |-> counts[h]]

\* mutant: a new hash is taken only when it is below the greatest retained
add_hash_nofill(m, new_hash) ==
    IF m.hashes = <<>> THEN TRUE ELSE new_hash <= m.hashes[1].hash

\* add_hash (lines 132-135): is the new hash to be counted
add_hash(m, new_hash) ==
    IF m.hashes = <<>> THEN TRUE
    ELSE new_hash <= m.hashes[1].hash \/ Len(m.hashes) < m.size

\* mutant: the heap is allowed one entry more than size
over_size_by_two(hs, size) == Len(hs) > size + 1

\* self.hashes.len() > self.size (line 159)
over_size(hs, size) == Len(hs) > size

\* MinHashCount::push(&mut self, item): <<"Ok", the new object>> or <<"Panic">>
MinHashCount_push_value(m, item, b) ==
    LET new_hash == hasher_finish(item)
    IN  IF ~add_hash(m, new_hash) THEN <<"Ok", m>>
        ELSE IF new_hash \in DOMAIN m.counts
        THEN IF m.counts[new_hash] = U16Max /\ b = "debug" THEN <<"Panic">>
             ELSE <<"Ok", [m EXCEPT !.total_count = @ + 1,
                                    !.counts[new_hash] = (@ + 1) % (U16Max + 1)]>>
        ELSE LET hs == heap_push(m.hashes, HashedItem(new_hash, item, m.keep_item))
                 cs == m.counts @@ (new_hash :> 1)
             IN  IF over_size(hs, m.size)
                 THEN LET p == heap_pop(hs)
                      IN  IF p[1].hash \notin DOMAIN cs THEN <<"Panic">>
                          ELSE <<"Ok", [m EXCEPT !.total_count = @ + 1, !.hashes = p[2],
                                                 !.counts = map_remove(cs, p[1].hash)]>>
                 ELSE <<"Ok", [m EXCEPT !.total_count = @ + 1, !.hashes = hs, !.counts = cs]>>

RECURSIVE sketch_slice_range(_, _, _, _, _)
\* the pushes of to_sketch[lo..hi] in order (the range is halved so that a
\* long slice is evaluated with a shallow nesting)
sketch_slice_range(m, to_sketch, lo, hi, b) ==
    IF lo > hi THEN <<"Ok", m>>
    ELSE IF lo = hi THEN MinHashCount_push_value(m, to_sketch[lo], b)
    ELSE LET r == sketch_slice_range(m, to_sketch, lo, (lo + hi) \div 2, b)
         IN  IF r[1] = "Panic" THEN r
             ELSE sketch_slice_range(r[2], to_sketch, ((lo + hi) \div 2) + 1, hi, b)

\* to_sketch.into_iter().for_each(|x| self.push(x))
sketch_slice_value(m, to_sketch, b) == sketch_slice_range(m, to_sketch, 1, Len(to_sketch), b)

\* get_sketchcount(&self): the heap's array order, each hash with its count;
\* <<"Panic">> when a count is missing
get_sketchcount(m) ==
    IF \E n \in 1..Len(m.hashes) : m.hashes[n].hash \notin DOMAIN m.counts THEN <<"Panic">>
    ELSE <<"Ok", [n \in 1..Len(m.hashes) |->
                    [hashed |-> m.hashes[n], count |-> m.counts[m.hashes[n].hash]]]>>

RECURSIVE insert_sorted(_, _)
insert_sorted(sorted, h) ==
    IF sorted = <<>> THEN <<h>>
    ELSE IF h < Head(sorted) THEN <<h>> \o sorted
    ELSE <<Head(sorted)>> \o insert_sorted(Tail(sorted), h)

RECURSIVE sort_unstable(_)
\* items.sort_unstable(): HashedItem is ordered by its hash alone, so the
\* sorted items are given by their hashes
sort_unstable(items) ==
    IF items = <<>> THEN <<>>
    ELSE insert_sorted(sort_unstable(Tail(items)), Head(items))

\* mutant: the merge is not stopped when total reaches sketch1.len()
loop_breaks_never(total, sketch_size) == FALSE

\* if total >= sketch1.len() as u64 { break; } (lines 234-236)
loop_breaks(total, sketch_size) == total >= sketch_size

RECURSIVE merge_loop(_, _, _, _, _, _, _)
\* the while loop of minhash_distance (lines 223-237); i, j are 0-based;
\* gives <<i, j, common, total>> at the exit of the loop
merge_loop(items1, items2, i, j, common, total, sketch_size) ==
    IF ~(i < Len(items1) /\ j < Len(items2)) THEN <<i, j, common, total>>
    ELSE LET i2 == IF items2[j + 1] < items1[i + 1] THEN i ELSE i + 1
             j2 == IF items1[i + 1] < items2[j + 1] THEN j ELSE j + 1
             common2 == IF items1[i + 1] = items2[j + 1] THEN common + 1 ELSE common
         IN  IF loop_breaks(total + 1, sketch_size)
             THEN <<i2, j2, common2, total + 1>>
             ELSE merge_loop(items1, items2, i2, j2, common2, total + 1, sketch_size)

\* minhash_distance(sketch1, sketch2) = MinHashDist(containment, jaccard,
\* common, total); a ratio is kept as <<numerator, denominator>>
minhash_distance_value(sketch1, sketch2) ==
    LET sketch_size == Len(sketch1)
        items1 == sort_unstable([n \in 1..Len(sketch1) |-> sketch1[n].hashed.hash])
        items2 == sort_unstable([n \in 1..Len(sketch2) |-> sketch2[n].hashed.hash])
        l == merge_loop(items1, items2, 0, 0, 0, 0, sketch_size)
        i == l[1]
        j == l[2]
        common == l[3]
        t0 == l[4]
        t1 == IF t0 < Len(items1) /\ i < Len(items1) THEN t0 + (Len(items1) - i) ELSE t0
        t2 == IF t0 < Len(items1) /\ j < Len(items1) THEN t1 + (Len(items1) - j) ELSE t1
        total == IF t0 < Len(items1) /\ t2 > sketch_size THEN sketch_size ELSE t2
    IN  [containment |-> <<common, i>>, jaccard |-> <<common, total>>,
         common |-> common, total |-> total]

\* the slices given to sketch_slice: short ones, and for a new object of
\* capacity 1 a slice repeating one item U16Max times
LongItem == 2
ShortSlices == {<<>>, <<1, 3>>, <<4, 0, 5>>}
Slices(m, np) ==
    ShortSlices \cup
    (IF np = 0 /\ m.size = 1 /\ ~m.keep_item THEN {[n \in 1..U16Max |-> LongItem]} ELSE {})

\* the hashes of the second argument of minhash_distance
SketchHashes == {1, 2, 4}

RECURSIVE SketchesUpTo(_)
\* the sketches given as second argument to minhash_distance: up to
\* MaxSketch pairwise distinct hashes in any order, each counted once
SketchesUpTo(n) ==
    IF n = 0 THEN {<<>>}
    ELSE LET S == SketchesUpTo(n - 1)
         IN  S \cup {Append(x, [hashed |-> [hash |-> h, item |-> None], count |-> 1]) :
                       x \in {y \in S : Len(y) = n - 1}, h \in SketchHashes}
DistinctHashes(sketch) ==
    \A a, c \in 1..Len(sketch) : a # c => sketch[a].hashed.hash # sketch[c].hashed.hash
Sketches == {x \in SketchesUpTo(MaxSketch) : DistinctHashes(x)}

\* mh = [obj : the MinHashCount, npush : number of calls, seen : history of
\* the hashes pushed so far]
MinHashCount_push ==
    /\ pc = "minhash"
    /\ mh.npush < MaxMhPush
    /\ \E item \in Items :
         LET r == MinHashCount_push_value(mh.obj, item, build)
         IN  /\ last' = Call("push", item, 0, NoKmer, <<r[1]>>)
             /\ IF r[1] = "Panic"
                THEN /\ pc' = "panicked"
                     /\ mh' = [mh EXCEPT !.npush = @ + 1,
                                         !.seen = @ \cup {hasher_finish(item)}]
                ELSE /\ pc' = pc
                     /\ mh' = [obj |-> r[2], npush |-> mh.npush + 1,
                               seen |-> mh.seen \cup {hasher_finish(item)}]
    /\ UNCHANGED <<itvars, kmvars, sk, fs>>

MinHashCount_sketch_slice ==
    /\ pc = "minhash"
    /\ mh.npush < MaxMhPush
    /\ \E to_sketch \in Slices(mh.obj, mh.npush) :
         \E r \in {sketch_slice_value(mh.obj, to_sketch, build)} :
             /\ last' = Call("sketch_slice", Len(to_sketch), 0, NoKmer, <<r[1]>>)
             /\ IF r[1] = "Panic"
                THEN /\ pc' = "panicked"
                     /\ mh' = [mh EXCEPT !.npush = @ + 1,
                                         !.seen = @ \cup {hasher_finish(to_sketch[n]) :
                                                            n \in 1..Len(to_sketch)}]
                ELSE /\ pc' = pc
                     /\ mh' = [obj |-> r[2], npush |-> mh.npush + 1,
                               seen |-> mh.seen \cup {hasher_finish(to_sketch[n]) :
                                                        n \in 1..Len(to_sketch)}]
    /\ UNCHANGED <<itvars, kmvars, sk, fs>>

MinHashCount_get_sketchcount ==
    /\ pc = "minhash"
    /\ last' = Call("get_sketchcount", 0, 0, NoKmer, get_sketchcount(mh.obj))
    /\ pc' = IF get_sketchcount(mh.obj)[1] = "Panic" THEN "panicked" ELSE pc
    /\ UNCHANGED <<itvars, kmvars, sk, fs, mh>>

\* minhash_distance(&sketch1, &sketch2), sketch1 being the sketch of the
\* object and sketch2 any sketch
minhash_distance ==
    /\ pc = "minhash"
    /\ get_sketchcount(mh.obj)[1] = "Ok"
    /\ \E sketch2 \in Sketches :
         last' = Call("minhash_distance", get_sketchcount(mh.obj)[2], sketch2, NoKmer,
                      <<"Ok", minhash_distance_value(get_sketchcount(mh.obj)[2], sketch2)>>)
    /\ pc' = "distance"
    /\ UNCHANGED <<itvars, kmvars, sk, fs, mh>>

InitMinHash ==
    /\ seq = <<>>
    /\ build \in {"debug", "release"}
    /\ pc = "minhash"
    /\ it = NoIter
    /\ emitted = <<>>
    /\ nnext = 0
    /\ nset = 0
    /\ setAt = 0
    /\ kmer = NoKmer
    /\ pushed = <<>>
    /\ last = NoCall
    /\ sk = NoSketch
    /\ fs = NoFiles
    /\ \E size \in 0..MaxSize, keep_item \in BOOLEAN :
         mh = [obj |-> MinHashCount_new(size, keep_item), npush |-> 0, seen |-> {}]

NextMinHash ==
    \/ MinHashCount_push
    \/ MinHashCount_sketch_slice
    \/ MinHashCount_get_sketchcount
    \/ minhash_distance

SpecMinHash == InitMinHash /\ [][NextMinHash]_vars

\* C25: the heap of hashes and the counts map of a MinHashCount built with
\* new(size, _) never hold more than size entries.
C25_AtMostSize ==
    pc \in {"minhash", "distance", "panicked"}
    => /\ Len(mh.obj.hashes) <= mh.obj.size
       /\ Cardinality(DOMAIN mh.obj.counts) <= mh.obj.size

\* C25 witness: an object of capacity 2 is full after an eviction.
C25_Witness ==
    /\ pc = "minhash"
    /\ mh.obj.size = 2
    /\ Len(mh.obj.hashes) = 2
    /\ Cardinality(mh.seen) >= 3

\* C26: get_sketchcount returns the retained hashed items as a vector sorted
\* by hash value (in one direction or the other), whatever the order of the
\* pushes.
C26_SketchSorted ==
    last.op = "get_sketchcount"
    => /\ last.ret[1] = "Ok"
       /\ Len(last.ret[2]) = Len(mh.obj.hashes)
       /\ \/ \A n \in 1..(Len(last.ret[2]) - 1) :
               last.ret[2][n].hashed.hash <= last.ret[2][n + 1].hashed.hash
          \/ \A n \in 1..(Len(last.ret[2]) - 1) :
               last.ret[2][n].hashed.hash >= last.ret[2][n + 1].hashed.hash

\* the min(size, d) smallest of the d hashes in S
SmallestOf(S, size) == {h \in S : Cardinality({g \in S : g < h}) < size}

\* C27: the hashes retained in the heap are exactly the min(size, d)
\* smallest of the d distinct hashes pushed so far, whatever the order and
\* the repetitions of the pushes.
C27_KeepsSmallest ==
    pc \in {"minhash", "distance", "panicked"}
    => HashesOf(mh.obj.hashes) = SmallestOf(mh.seen, mh.obj.size)

\* C27 witness: a hash that had been evicted was pushed again and is not
\* retained.
C27_Witness ==
    /\ pc = "minhash"
    /\ last.op = "push"
    /\ mh.npush = 3
    /\ mh.obj.size = 1
    /\ hasher_finish(last.a) \in mh.seen
    /\ hasher_finish(last.a) \notin HashesOf(mh.obj.hashes)
    /\ mh.obj.total_count = 2

\* C28: the keys of the counts map are the hashes of the heap, the heap
\* holds no hash twice, every count is at least 1 and has not wrapped its 16
\* bits; hence neither push nor get_sketchcount fails.
C28_CountsMatchHeap ==
    pc \in {"minhash", "distance", "panicked"}
    => /\ pc # "panicked"
       /\ DOMAIN mh.obj.counts = HashesOf(mh.obj.hashes)
       /\ Cardinality(HashesOf(mh.obj.hashes)) = Len(mh.obj.hashes)
       /\ \A h \in DOMAIN mh.obj.counts : mh.obj.counts[h] >= 1

\* C29: for two sketches of pairwise distinct hashes and n = sketch1.len(),
\* minhash_distance returns common = the number of hashes present in both
\* sketches among the n smallest hashes of their union, and a total with
\* common <= total <= n, total being non-zero when n > 0.
C29_Distance ==
    (last.op = "minhash_distance" /\ DistinctHashes(last.a) /\ DistinctHashes(last.b))
    => LET H1 == {last.a[n].hashed.hash : n \in 1..Len(last.a)}
           H2 == {last.b[n].hashed.hash : n \in 1..Len(last.b)}
           n == Len(last.a)
       IN  /\ last.ret[2].common
                = Cardinality(SmallestOf(H1 \cup H2, n) \cap (H1 \cap H2))
           /\ last.ret[2].common <= last.ret[2].total
           /\ last.ret[2].total <= n
           /\ n > 0 => last.ret[2].total # 0

\* C29 witness: the two sketches share a hash, but it is not among the n
\* smallest hashes of their union and is not counted.
C29_Witness ==
    /\ last.op = "minhash_distance"
    /\ Len(last.a) = 2
    /\ Len(last.b) = 2
    /\ last.ret[2].common = 0
    /\ last.ret[2].total = 2
    /\ Cardinality({last.a[n].hashed.hash : n \in 1..2}
                     \cap {last.b[n].hashed.hash : n \in 1..2}) = 1

====
